---- MODULE Spec2Model ----
(***************************************************************************)
(* Model of vfy-go, a backup verifier: the recursive walk visit() over an  *)
(* original and a backup tree, the subtree count countItems(), the file    *)
(* comparison sameFile() in its two drafts (src/vfy.go and the docopt      *)
(* draft), and the counters of globalResultSummary.                        *)
(*                                                                         *)
(* A tree is a function from relative paths (sequences of names) to nodes. *)
(* Paths of the original tree are relative to origDir, paths of the backup *)
(* tree are relative to backupDir.  Symbolic links are leaves; the         *)
(* directory a link points to lies outside both trees and is empty.        *)
(***************************************************************************)
EXTENDS Integers, Sequences, FiniteSets, TLC

\* ---------------------------------------------------------------- bounds
MaxNames == 2
MaxDepth == 2
MaxNodes == 3
MaxDev == 1
MaxTargets == 2
MaxSize == 2
MaxSamples == 2
MaxFileSize == 34

\* The number of bytes to compare during each random sample comparison.
sampleSize == 32

\* ------------------------------------------------------------ filesystem
Names == 1..MaxNames

RECURSIVE PathsOfLen(_)
PathsOfLen(k) ==
  IF k = 0 THEN {<<>>}
  ELSE {Append(p, n) : p \in PathsOfLen(k - 1), n \in Names}

Paths == UNION {PathsOfLen(k) : k \in 0..MaxDepth}

None == [kind |-> "none", size |-> 0, dev |-> 0, target |-> 0, tkind |-> "none", locked |-> FALSE]
File(s) == [kind |-> "file", size |-> s, dev |-> 0, target |-> 0, tkind |-> "none", locked |-> FALSE]
Dir(d) == [kind |-> "dir", size |-> 0, dev |-> d, target |-> 0, tkind |-> "none", locked |-> FALSE]
LockedDir(d) == [kind |-> "dir", size |-> 0, dev |-> d, target |-> 0, tkind |-> "none", locked |-> TRUE]
Link(t, k) == [kind |-> "link", size |-> 1, dev |-> 0, target |-> t, tkind |-> k, locked |-> FALSE]

Parent(p) == SubSeq(p, 1, Len(p) - 1)

IsPrefix(p, q) == Len(p) < Len(q) /\ SubSeq(q, 1, Len(p)) = p

Node(t, p) == IF p \in DOMAIN t THEN t[p] ELSE None

\* filepath.Join on relative paths
Join(a, b) == a \o b

\* filepath.Base: the last element of the path; Base("") is ".", which Join
\* cleans away again
Base(p) == IF p = <<>> THEN <<>> ELSE <<p[Len(p)]>>

\* os.Stat follows symbolic links; a regular file lives on the device of its
\* directory
RECURSIVE Stat(_, _)
Stat(t, p) ==
  LET nd == Node(t, p) IN
  CASE nd.kind = "none" -> [err |-> TRUE, kind |-> "none", size |-> 0, dev |-> 0]
    [] nd.kind = "dir"  -> [err |-> FALSE, kind |-> "dir", size |-> 0, dev |-> nd.dev]
    [] nd.kind = "file" -> [err |-> FALSE, kind |-> "file", size |-> nd.size,
                            dev |-> IF p = <<>> THEN 0 ELSE Stat(t, Parent(p)).dev]
    [] nd.kind = "link" ->
         IF nd.tkind = "none"
         THEN [err |-> TRUE, kind |-> "none", size |-> 0, dev |-> 0]
         ELSE [err |-> FALSE, kind |-> nd.tkind, size |-> nd.size, dev |-> nd.dev]

isDirOrFile(fi) ==
  CASE fi.kind = "dir"  -> "directory"
    [] fi.kind = "file" -> "file"
    [] OTHER            -> ""

\* os.Lstat does not follow the link; an Lstat error yields false
isSymLink(t, p) == Node(t, p).kind = "link"

\* filepath.EvalSymlinks: the resolved target, or "" (0) and an error
EvalSymlinks(t, p) ==
  LET nd == Node(t, p) IN
  IF nd.kind = "link" /\ nd.tkind # "none"
  THEN [path |-> nd.target, err |-> FALSE]
  ELSE [path |-> 0, err |-> TRUE]

RECURSIVE SortedSeq(_)
SortedSeq(S) ==
  IF S = {} THEN <<>>
  ELSE LET m == CHOOSE x \in S : \A y \in S : x <= y
       IN <<m>> \o SortedSeq(S \ {m})

\* ioutil.ReadDir: the entries of a directory sorted by name, or an error
ReadDir(t, p) ==
  LET st == Stat(t, p) IN
  IF st.err \/ st.kind # "dir" \/ Node(t, p).locked
  THEN [err |-> TRUE, names |-> <<>>]
  ELSE [err |-> FALSE,
        names |-> SortedSeq({n \in Names : Node(t, Append(p, n)).kind # "none"})]

\* -------------------------------------------------------------- summary
resultSummary ==
  [diffCount |-> 0, itemCount |-> 0, skippedCount |-> 0,
   errorCount |-> 0, symLinkError |-> 0, symMisMatch |-> 0, diffPct |-> ""]

Add(sum, field, n) == [sum EXCEPT ![field] = @ + n]

\* ------------------------------------------------------------ countItems
RECURSIVE countItems(_, _)
RECURSIVE countLoop(_, _, _)
countLoop(t, dir, names) ==
  IF names = <<>> THEN [count |-> 0, errors |-> 0]
  ELSE LET fullPath == Join(dir, <<Head(names)>>)
           sub == IF Node(t, fullPath).kind = "dir"
                  THEN countItems(t, fullPath)
                  ELSE [count |-> 0, errors |-> 0]
           rest == countLoop(t, dir, Tail(names))
       IN [count |-> 1 + sub.count + rest.count,
           errors |-> sub.errors + rest.errors]

countItems(t, dir) ==
  LET rd == ReadDir(t, dir)
      body == countLoop(t, dir, rd.names)
  IN [count |-> body.count,
      errors |-> body.errors + (IF rd.err THEN 1 ELSE 0)]

\* ------------------------------------------------------------- sameFile
\* A file as sameFile sees it: the outcome of os.Stat ("ok", "notexist" or
\* another error "err"), whether os.Open succeeds, whether reads fail with an
\* I/O error, and its bytes.
RegularFile(bytes) ==
  [stat |-> "ok", open |-> TRUE, readerr |-> FALSE, size |-> Len(bytes), bytes |-> bytes]

Min(a, b) == IF a < b THEN a ELSE b

doesFileExist(f) ==
  CASE f.stat = "ok"       -> [ok |-> TRUE, err |-> FALSE]
    [] f.stat = "notexist" -> [ok |-> FALSE, err |-> FALSE]
    [] OTHER               -> [ok |-> FALSE, err |-> TRUE]

getFileSize(f) ==
  IF f.stat = "ok" THEN [size |-> f.size, err |-> FALSE]
  ELSE [size |-> 0, err |-> TRUE]

\* crypto/rand.Int draws from [0, max); it panics when max <= 0
getRandomNumberWithMax(max) == 0..(max - 1)

\* math.Min(fileASize, startAtByte + sampleSize) - startAtByte + 1.0
testBytesLength(fileASize, startAtByte) ==
  Min(fileASize, startAtByte + sampleSize) - startAtByte + 1

\* io.ReadAtLeast(f, buf, len(buf)) at the file's current position: the files
\* are never seeked, so the position is the number of bytes read so far
ReadAtLeast(f, pos, len) ==
  IF f.readerr THEN [n |-> 0, err |-> TRUE, bytes |-> <<>>]
  ELSE IF pos + len > f.size
       THEN [n |-> f.size - pos, err |-> TRUE, bytes |-> SubSeq(f.bytes, pos + 1, f.size)]
       ELSE [n |-> len, err |-> FALSE, bytes |-> SubSeq(f.bytes, pos + 1, pos + len)]

Verdict(ret, errors, reads) ==
  [ret |-> ret, errors |-> errors, fatal |-> FALSE, reads |-> reads]

Fatal(reads) == [ret |-> FALSE, errors |-> 0, fatal |-> TRUE, reads |-> reads]

\* The sampling loop of src/vfy.go: every path through the body leaves the
\* loop (break on a matching sample, return false otherwise).
sampleLoop(fileA, fileB, count, offs, i, pos) ==
  IF i >= count THEN Verdict(TRUE, 0, <<>>)
  ELSE IF fileA.size <= 0 THEN Fatal(<<>>)
  ELSE
    LET startAtByte == offs[i + 1]
        len == testBytesLength(fileA.size, startAtByte)
        r1 == ReadAtLeast(fileA, pos, len)
        r2 == ReadAtLeast(fileB, pos, len)
        rd == <<[start |-> startAtByte, pos |-> pos, len |-> len]>>
    IN IF r1.err THEN Verdict(FALSE, 1, rd)
       ELSE IF r2.err THEN Verdict(FALSE, 1, rd)
       ELSE IF r1.n # len /\ r2.n # len THEN Verdict(FALSE, 2, rd)
       ELSE IF r1.bytes = r2.bytes THEN Verdict(TRUE, 0, rd)
       ELSE Verdict(FALSE, 0, rd)

sameFile(fileA, fileB, count, offs) ==
  LET a == doesFileExist(fileA)
      b == doesFileExist(fileB)
      sa == getFileSize(fileA)
      sb == getFileSize(fileB)
  IN IF ~a.ok /\ a.err /\ ~b.ok /\ b.err THEN Verdict(FALSE, 1, <<>>)
     ELSE IF sa.err THEN Verdict(FALSE, 1, <<>>)
     ELSE IF sb.err THEN Verdict(FALSE, 1, <<>>)
     ELSE IF sa.size # sb.size THEN Verdict(FALSE, 1, <<>>)
     ELSE IF ~fileA.open THEN Verdict(FALSE, 1, <<>>)
     ELSE IF ~fileB.open THEN Verdict(FALSE, 1, <<>>)
     ELSE sampleLoop(fileA, fileB, count, offs, 0, 0)

\* The sampling loop of the docopt draft: a matching sample returns true, a
\* differing one goes on to the next trial, and the end of the loop is false.
RECURSIVE sampleLoopDocopt(_, _, _, _, _, _)
sampleLoopDocopt(fileA, fileB, sampleNumber, offs, i, pos) ==
  IF i >= sampleNumber THEN Verdict(FALSE, 0, <<>>)
  ELSE IF fileA.size <= 0 THEN Fatal(<<>>)
  ELSE
    LET startAtByte == offs[i + 1]
        len == testBytesLength(fileA.size, startAtByte)
        r1 == ReadAtLeast(fileA, pos, len)
        r2 == ReadAtLeast(fileB, pos, len)
        rd == <<[start |-> startAtByte, pos |-> pos, len |-> len]>>
    IN IF r1.err THEN Verdict(FALSE, 1, rd)
       ELSE IF r2.err THEN Verdict(FALSE, 1, rd)
       ELSE IF r1.n # len /\ r2.n # len THEN Verdict(FALSE, 1, rd)
       ELSE IF r1.bytes = r2.bytes THEN Verdict(TRUE, 0, rd)
       ELSE LET rest == sampleLoopDocopt(fileA, fileB, sampleNumber, offs, i + 1, pos + len)
            IN [rest EXCEPT !.reads = rd \o @]

sameFileDocopt(fileA, fileB, sampleNumber, offs) ==
  LET a == doesFileExist(fileA)
      b == doesFileExist(fileB)
      sa == getFileSize(fileA)
      sb == getFileSize(fileB)
  IN IF ~a.ok /\ a.err /\ ~b.ok /\ b.err THEN Verdict(FALSE, 0, <<>>)
     ELSE IF sa.err THEN Verdict(FALSE, 1, <<>>)
     ELSE IF sb.err THEN Verdict(FALSE, 1, <<>>)
     ELSE IF sa.size # sb.size THEN Verdict(FALSE, 1, <<>>)
     ELSE IF ~fileA.open THEN Verdict(FALSE, 1, <<>>)
     ELSE IF ~fileB.open THEN Verdict(FALSE, 2, <<>>)
     ELSE sampleLoopDocopt(fileA, fileB, sampleNumber, offs, 0, 0)

\* the offsets the trials of one comparison may draw
Offsets(size, count) ==
  [1..count -> IF size <= 0 THEN {0} ELSE getRandomNumberWithMax(size)]

\* the file sameFile opens when it is handed a path of a tree
FileAt(t, p) ==
  LET st == Stat(t, p) IN
  [stat |-> IF st.err THEN "notexist" ELSE "ok", open |-> ~st.err,
   readerr |-> st.kind = "dir", size |-> st.size,
   bytes |-> [i \in 1..st.size |-> 0]]

\* ------------------------------------------------------------ the state
VARIABLES
  orig,                 \* the tree under origDir
  backup,               \* the tree under backupDir
  nextBackup,           \* the backup tree of a second run over the same original
  followSymlinks,       \* --follow
  oneFilesystem,        \* --one-filesystem
  sampleCount,          \* --samples
  pc,                   \* "start", "walk", "done", "end" for a run; "file" otherwise
  stack,                \* the active calls of visit, innermost first
  globalResultSummary,  \* the counters
  firstSummary,         \* the counters the first run ended with
  runNo,                \* 1 in the first run, 2 in the second
  examined,             \* history: the entries the loop of visit has handled
  listed,               \* history: the directories whose entries visit enumerates
  visited,              \* history: the entries visit has been called on
  trials,               \* history: the sampling trials made during the walk
  compared,             \* history: the pairs of paths visit has put side by side
  fileA,                \* the two files handed to sameFile on its own
  fileB,
  cmp                   \* the verdict of that comparison, once made

vars ==
  <<orig, backup, nextBackup, followSymlinks, oneFilesystem, sampleCount, pc,
    stack, globalResultSummary, firstSummary, runNo, examined, listed,
    visited, trials, compared, fileA, fileB, cmp>>

diffCount == globalResultSummary.diffCount
itemCount == globalResultSummary.itemCount
skippedCount == globalResultSummary.skippedCount
errorCount == globalResultSummary.errorCount
symLinkError == globalResultSummary.symLinkError
symMisMatch == globalResultSummary.symMisMatch

\* ----------------------------------------------------------------- visit
\* the two paths visit(relative) puts side by side, each below its own root
visitPaths(relative) == [original |-> relative, backup |-> Base(relative)]

\* the two paths the loop of visit(relative) derives for the entry item
itemPaths(relative, item) ==
  [original |-> Join(visitPaths(relative).original, <<item>>),
   backup |-> Join(visitPaths(relative).backup, <<item>>)]

\* visitProlog with the count of the subtree added to diffCount a second time
\* where line 545 adds it to itemCount
visitPrologCountToDiff(relative, sum0) ==
  LET sum == Add(sum0, "itemCount", 1)
      original == visitPaths(relative).original
      backupPath == visitPaths(relative).backup
      folder1Stat == Stat(orig, original)
      folder2Stat == Stat(backup, backupPath)
  IN IF folder1Stat.err
     THEN [sum |-> Add(Add(sum, "diffCount", 1), "errorCount", 1), loop |-> FALSE, files |-> <<>>]
     ELSE IF folder2Stat.err
     THEN [sum |-> Add(Add(sum, "diffCount", 1), "errorCount", 1), loop |-> FALSE, files |-> <<>>]
     ELSE IF ~(isDirOrFile(folder1Stat) = "directory" /\ isDirOrFile(folder2Stat) = "directory")
     THEN LET c == countItems(orig, original)
          IN [sum |-> Add(Add(Add(sum, "diffCount", 1 + c.count), "diffCount", c.count),
                          "errorCount", c.errors),
              loop |-> FALSE, files |-> <<>>]
     ELSE LET rd == ReadDir(orig, original)
          IN IF rd.err
             THEN [sum |-> Add(sum, "errorCount", 1), loop |-> FALSE, files |-> <<>>]
             ELSE [sum |-> sum, loop |-> TRUE, files |-> rd.names]

\* visit(relative) up to its loop: the counters it leaves, and either the
\* entries the loop will go through or an early return
visitProlog(relative, sum0) ==
  LET sum == Add(sum0, "itemCount", 1)
      original == visitPaths(relative).original
      backupPath == visitPaths(relative).backup
      folder1Stat == Stat(orig, original)
      folder2Stat == Stat(backup, backupPath)
  IN IF folder1Stat.err
     THEN [sum |-> Add(Add(sum, "diffCount", 1), "errorCount", 1), loop |-> FALSE, files |-> <<>>]
     ELSE IF folder2Stat.err
     THEN [sum |-> Add(Add(sum, "diffCount", 1), "errorCount", 1), loop |-> FALSE, files |-> <<>>]
     ELSE IF ~(isDirOrFile(folder1Stat) = "directory" /\ isDirOrFile(folder2Stat) = "directory")
     THEN LET c == countItems(orig, original)
          IN [sum |-> Add(Add(Add(sum, "diffCount", 1 + c.count), "itemCount", c.count),
                          "errorCount", c.errors),
              loop |-> FALSE, files |-> <<>>]
     ELSE LET rd == ReadDir(orig, original)
          IN IF rd.err
             THEN [sum |-> Add(sum, "errorCount", 1), loop |-> FALSE, files |-> <<>>]
             ELSE [sum |-> sum, loop |-> TRUE, files |-> rd.names]

\* One pass through the body of the loop of visit(relative) for the entry
\* item: the counters it leaves and how it ends: "return" leaves visit, "call"
\* recurses into the entry, "next" goes on to the next entry.
visitItem(relative, item, sum0, offs) ==
  LET sum == Add(sum0, "itemCount", 1)
      original == visitPaths(relative).original
      backupDir == visitPaths(relative).backup
      origPath == itemPaths(relative, item).original
      backupPath == itemPaths(relative, item).backup
      folder1Stat == Stat(orig, original)
      symlink1 == EvalSymlinks(orig, origPath)
      symlink2 == EvalSymlinks(backup, backupPath)
      mismatch == /\ isSymLink(orig, origPath) \/ isSymLink(backup, backupPath)
                  /\ isSymLink(orig, origPath) /\ isSymLink(backup, backupPath)
                  /\ symlink1.path # symlink2.path
      outerDevStat == Stat(orig, original)
      innerDevStat == Stat(orig, origPath)
  IN IF mismatch
     THEN LET c == IF Node(orig, origPath).kind = "dir"
                   THEN countItems(orig, origPath)
                   ELSE [count |-> 0, errors |-> 0]
          IN [sum |-> Add(Add(Add(sum, "diffCount", 1 + c.count), "itemCount", c.count),
                          "errorCount", c.errors),
              end |-> "return", trials |-> 0]
     ELSE IF isDirOrFile(folder1Stat) = "directory"
     THEN IF ~followSymlinks
          THEN [sum |-> Add(sum, "skippedCount", 1), end |-> "return", trials |-> 0]
          ELSE IF outerDevStat.err
          THEN [sum |-> Add(sum, "skippedCount", 1), end |-> "return", trials |-> 0]
          ELSE IF innerDevStat.err
          THEN [sum |-> Add(sum, "skippedCount", 1), end |-> "return", trials |-> 0]
          ELSE IF outerDevStat.dev # innerDevStat.dev /\ oneFilesystem
          THEN [sum |-> Add(sum, "skippedCount", 1), end |-> "return", trials |-> 0]
          ELSE [sum |-> sum, end |-> "call", trials |-> 0]
     ELSE LET v == sameFile(FileAt(orig, original), FileAt(backup, backupDir), sampleCount, offs)
          IN [sum |-> Add(Add(sum, "errorCount", v.errors), "diffCount", IF v.ret THEN 0 ELSE 1),
              end |-> "next", trials |-> Len(v.reads)]

Frame(relative, files) == [relative |-> relative, files |-> files]

\* compare(""): main calls visit on the two roots
compare ==
  /\ pc = "start"
  /\ LET p == visitProlog(<<>>, globalResultSummary)
     IN /\ globalResultSummary' = p.sum
        /\ stack' = IF p.loop THEN <<Frame(<<>>, p.files)>> ELSE <<>>
        /\ pc' = IF p.loop THEN "walk" ELSE "done"
        /\ listed' = IF p.loop THEN listed \cup {<<>>} ELSE listed
  /\ visited' = visited \cup {<<>>}
  /\ compared' = compared \cup {visitPaths(<<>>)}
  /\ UNCHANGED <<orig, backup, nextBackup, followSymlinks, oneFilesystem, sampleCount,
                 firstSummary, runNo, examined, trials, fileA, fileB, cmp>>

\* the innermost visit handles its next entry, the call of visit on that
\* entry up to its own loop included
visit ==
  /\ pc = "walk"
  /\ stack # <<>>
  /\ Head(stack).files # <<>>
  /\ LET top == Head(stack)
         item == Head(top.files)
         child == Join(top.relative, <<item>>)
         rest == <<Frame(top.relative, Tail(top.files))>> \o Tail(stack)
     IN \E offs \in Offsets(Stat(orig, top.relative).size, sampleCount) :
          LET r == visitItem(top.relative, item, globalResultSummary, offs)
              p == visitProlog(child, r.sum)
          IN /\ examined' = examined \cup {child}
             /\ visited' = IF r.end = "call" THEN visited \cup {child} ELSE visited
             /\ trials' = trials + r.trials
             /\ compared' = compared \cup {itemPaths(top.relative, item)}
                               \cup (IF r.end = "call" THEN {visitPaths(child)} ELSE {})
             /\ CASE r.end = "return" ->
                       /\ globalResultSummary' = r.sum
                       /\ stack' = Tail(stack)
                       /\ listed' = listed
                  [] r.end = "next" ->
                       /\ globalResultSummary' = r.sum
                       /\ stack' = rest
                       /\ listed' = listed
                  [] r.end = "call" ->
                       /\ globalResultSummary' = p.sum
                       /\ stack' = IF p.loop THEN <<Frame(child, p.files)>> \o rest ELSE rest
                       /\ listed' = IF p.loop THEN listed \cup {child} ELSE listed
             /\ pc' = IF stack' = <<>> THEN "done" ELSE "walk"
  /\ UNCHANGED <<orig, backup, nextBackup, followSymlinks, oneFilesystem, sampleCount,
                 firstSummary, runNo, fileA, fileB, cmp>>

\* the loop of the innermost visit has run out of entries: visit returns
visitReturn ==
  /\ pc = "walk"
  /\ stack # <<>>
  /\ Head(stack).files = <<>>
  /\ stack' = Tail(stack)
  /\ pc' = IF stack' = <<>> THEN "done" ELSE "walk"
  /\ UNCHANGED <<orig, backup, nextBackup, followSymlinks, oneFilesystem, sampleCount,
                 globalResultSummary, firstSummary, runNo, examined, listed,
                 visited, trials, compared, fileA, fileB, cmp>>

\* fmt.Sprintf("%.f", num / den): the whole number nearest to the quotient,
\* the even one of two equally near; the counters of a run are small enough
\* that the float64 quotient rounds as the exact one does
RoundHalfEven(num, den) ==
  LET q == num \div den
      r == num % den
  IN IF 2 * r < den THEN q
     ELSE IF 2 * r > den THEN q + 1
     ELSE IF q % 2 = 0 THEN q ELSE q + 1

\* float64(diffCount) / float64(itemCount) * 100 under "%.f"; a float64
\* division by zero is no fault, it gives NaN for 0/0 and +Inf otherwise
FormatDiffPct(diff, items) ==
  IF items = 0
  THEN IF diff = 0 THEN "NaN" ELSE "+Inf"
  ELSE ToString(RoundHalfEven(100 * diff, items))

\* main calls printSummary once compare("") has returned
printSummary ==
  /\ pc = "done"
  /\ globalResultSummary' =
       [globalResultSummary EXCEPT !.diffPct = FormatDiffPct(diffCount, itemCount)]
  /\ pc' = "end"
  /\ UNCHANGED <<orig, backup, nextBackup, followSymlinks, oneFilesystem, sampleCount,
                 stack, firstSummary, runNo, examined, listed, visited, trials,
                 compared, fileA, fileB, cmp>>

\* the program is run a second time, on the same original and nextBackup
rerun ==
  /\ pc = "end"
  /\ runNo = 1
  /\ runNo' = 2
  /\ firstSummary' = globalResultSummary
  /\ globalResultSummary' = resultSummary
  /\ backup' = nextBackup
  /\ pc' = "start"
  /\ stack' = <<>>
  /\ examined' = {}
  /\ listed' = {}
  /\ visited' = {}
  /\ trials' = 0
  /\ compared' = {}
  /\ UNCHANGED <<orig, nextBackup, followSymlinks, oneFilesystem, sampleCount,
                 fileA, fileB, cmp>>

\* ------------------------------------------------- sameFile on its own
Idle == [impl |-> "none", ret |-> FALSE, errors |-> 0, fatal |-> FALSE, reads |-> <<>>]

Outcome(impl, v) ==
  [impl |-> impl, ret |-> v.ret, errors |-> v.errors, fatal |-> v.fatal, reads |-> v.reads]

\* sameFile of src/vfy.go is applied to fileA and fileB
callSameFile ==
  /\ pc = "file"
  /\ cmp = Idle
  /\ \E offs \in Offsets(fileA.size, sampleCount) :
       cmp' = Outcome("vfy", sameFile(fileA, fileB, sampleCount, offs))
  /\ UNCHANGED <<orig, backup, nextBackup, followSymlinks, oneFilesystem, sampleCount, pc,
                 stack, globalResultSummary, firstSummary, runNo, examined, listed,
                 visited, trials, compared, fileA, fileB>>

\* sameFile of the docopt draft is applied to fileA and fileB
callSameFileDocopt ==
  /\ pc = "file"
  /\ cmp = Idle
  /\ \E offs \in Offsets(fileA.size, sampleCount) :
       cmp' = Outcome("docopt", sameFileDocopt(fileA, fileB, sampleCount, offs))
  /\ UNCHANGED <<orig, backup, nextBackup, followSymlinks, oneFilesystem, sampleCount, pc,
                 stack, globalResultSummary, firstSummary, runNo, examined, listed,
                 visited, trials, compared, fileA, fileB>>

\* ------------------------------------------------------------- the inputs
\* what an entry of the backup can be; the device of a backup directory is
\* never looked at
BackupTypes ==
  {File(s) : s \in 1..MaxSize} \cup {Dir(0), Link(1, "none")}
    \cup {Link(t, k) : t \in 1..MaxTargets, k \in {"file", "dir"}}

\* the original's files and links take one size and one target: a run depends
\* on them only through their being equal or unequal to the backup's
OrigTypes ==
  {File(1), LockedDir(0), Link(1, "file"), Link(1, "dir")} \cup {Dir(d) : d \in 0..MaxDev}

EmptyTree == [p \in Paths |-> IF p = <<>> THEN Dir(0) ELSE None]

\* the tree with the node at p replaced; what lay below p goes unless a
\* directory replaces a directory
SetNode(t, p, nd) ==
  [q \in Paths |->
     IF q = p THEN nd
     ELSE IF IsPrefix(p, q) /\ ~(nd.kind = "dir" /\ t[p].kind = "dir" /\ ~nd.locked) THEN None
     ELSE t[q]]

\* the places of a tree where an entry can be
Slots(t) == {p \in Paths \ {<<>>} : t[Parent(p)].kind = "dir" /\ ~t[Parent(p)].locked}

Free(t) == {p \in Slots(t) : t[p].kind = "none"}

\* the original trees: at most MaxNodes entries below the root
RECURSIVE TreesUpTo(_)
TreesUpTo(k) ==
  IF k = 0 THEN {EmptyTree}
  ELSE LET smaller == TreesUpTo(k - 1)
       IN smaller \cup
          UNION {{SetNode(t, p, nd) : p \in Free(t), nd \in OrigTypes} : t \in smaller}

OrigTrees == TreesUpTo(MaxNodes)

\* the backups of an original: a faithful copy, or a copy in which one entry
\* is missing or replaced
Backups(o) ==
  {o} \cup {SetNode(o, p, nd) : p \in Slots(o) \ Free(o), nd \in BackupTypes \cup {None}}

\* a backup with one more entry where the original has none
Extras(o, b) ==
  {SetNode(b, p, nd) : p \in {q \in Slots(b) : o[q].kind = "none"},
                       nd \in {File(1), Dir(0), Link(1, "file")}}

NoWalk ==
  /\ orig = EmptyTree
  /\ backup = EmptyTree
  /\ nextBackup = EmptyTree
  /\ followSymlinks = FALSE
  /\ oneFilesystem = FALSE
  /\ stack = <<>>
  /\ globalResultSummary = resultSummary
  /\ firstSummary = resultSummary
  /\ runNo = 1
  /\ examined = {}
  /\ listed = {}
  /\ visited = {}
  /\ trials = 0
  /\ compared = {}

NoFiles ==
  /\ fileA = RegularFile(<<>>)
  /\ fileB = RegularFile(<<>>)
  /\ cmp = Idle

\* main has checked that both roots are directories and can be read
Init ==
  /\ orig \in OrigTrees
  /\ backup \in Backups(orig)
  /\ nextBackup = backup
  /\ followSymlinks \in BOOLEAN
  /\ oneFilesystem \in BOOLEAN
  /\ sampleCount = 0
  /\ pc = "start"
  /\ stack = <<>>
  /\ globalResultSummary = resultSummary
  /\ firstSummary = resultSummary
  /\ runNo = 1
  /\ examined = {}
  /\ listed = {}
  /\ visited = {}
  /\ trials = 0
  /\ compared = {}
  /\ NoFiles

Next == compare \/ visit \/ visitReturn \/ printSummary

Spec == Init /\ [][Next]_vars

\* two runs over one original, the second on a backup with one more entry
InitPair ==
  /\ orig \in OrigTrees
  /\ backup = orig
  /\ nextBackup \in Extras(orig, backup)
  /\ followSymlinks \in BOOLEAN
  /\ oneFilesystem \in BOOLEAN
  /\ sampleCount = 0
  /\ pc = "start"
  /\ stack = <<>>
  /\ globalResultSummary = resultSummary
  /\ firstSummary = resultSummary
  /\ runNo = 1
  /\ examined = {}
  /\ listed = {}
  /\ visited = {}
  /\ trials = 0
  /\ compared = {}
  /\ NoFiles

NextPair == compare \/ visit \/ visitReturn \/ printSummary \/ rerun

SpecPair == InitPair /\ [][NextPair]_vars

\* sameFile on two files: fileA is all zero bytes; fileB is the same, differs
\* in its first, middle or last byte, is one byte longer, or cannot be stat'ed, opened or read
Zeros(n) == [i \in 1..n |-> 0]

FileBs(n) ==
  {RegularFile(Zeros(n)), RegularFile(Zeros(n + 1))}
    \cup {RegularFile([Zeros(n) EXCEPT ![d] = 1]) : d \in {1, (n + 1) \div 2, n} \ {0}}
    \cup {[RegularFile(Zeros(n)) EXCEPT !.stat = st] : st \in {"notexist", "err"}}
    \cup {[RegularFile(Zeros(n)) EXCEPT !.open = FALSE],
          [RegularFile(Zeros(n)) EXCEPT !.readerr = TRUE]}

InitFile ==
  /\ \E n \in 0..MaxFileSize :
       /\ fileA \in {RegularFile(Zeros(n)), [RegularFile(Zeros(n)) EXCEPT !.stat = "err"]}
       /\ fileB \in FileBs(n)
  /\ sampleCount \in 0..MaxSamples
  /\ cmp = Idle
  /\ pc = "file"
  /\ NoWalk

NextFile == callSameFile \/ callSameFileDocopt

SpecFile == InitFile /\ [][NextFile]_vars

\* ------------------------------------------------------------ the claims
\* the walk is about to handle the entry p of the directory it is in
Handling(p) ==
  /\ pc = "walk"
  /\ stack # <<>>
  /\ Head(stack).files # <<>>
  /\ p = Join(Head(stack).relative, <<Head(Head(stack).files)>>)

Entries == Paths \ {<<>>}

\* the entries of the original below p, at any depth
Below(p) == {q \in Paths : IsPrefix(p, q) /\ orig[q].kind # "none"}

Readable(f) == f.stat = "ok" /\ f.open /\ ~f.readerr

\* C1: when visit is called on an entry that is a directory in the original
\* and missing in the backup, handling the entry adds the same amount to
\* diffCount and to itemCount, and that amount is the number of files plus the
\* number of directories of the missing subtree (the directories below the
\* entry, with or without the entry itself).
C1_SubtreeWeighting ==
  [][\A p \in Entries :
       (/\ Handling(p)
        /\ orig[p].kind = "dir" /\ backup[p].kind = "none"
        /\ p \in visited')
         => /\ diffCount' - diffCount = itemCount' - itemCount
            /\ diffCount' - diffCount \in {Cardinality(Below(p)), Cardinality(Below(p)) + 1}]_vars

\* C2: with sampleCount = 0 the comparison of two readable files of equal
\* length returns true and counts no error, whatever the files contain.
C2_WeakMode ==
  (/\ cmp # Idle
   /\ Readable(fileA) /\ Readable(fileB)
   /\ fileA.size = fileB.size
   /\ sampleCount = 0)
    => (cmp.ret /\ cmp.errors = 0 /\ ~cmp.fatal)

\* C3: handling an entry that is a regular file of unequal size on the two
\* sides makes no sampling trial and adds one to errorCount and one to
\* diffCount.
C3_UnequalSizes ==
  [][\A p \in Entries :
       (/\ Handling(p)
        /\ orig[p].kind = "file" /\ backup[p].kind = "file"
        /\ orig[p].size # backup[p].size)
         => /\ trials' = trials
            /\ errorCount' = errorCount + 1
            /\ diffCount' = diffCount + 1]_vars

\* C4: with sampleCount > 0 the comparison of two readable files of identical
\* content and at least one byte returns true and counts no error, whatever
\* offsets are drawn.
C4_NoFalseAlarm ==
  (/\ cmp.impl = "vfy"
   /\ Readable(fileA) /\ Readable(fileB)
   /\ fileA.bytes = fileB.bytes
   /\ fileA.size >= 1
   /\ sampleCount > 0)
    => (cmp.ret /\ cmp.errors = 0 /\ ~cmp.fatal)

\* every window [start, start + sampleSize) cut off at the end of the file
\* holds a byte in which the two files differ
EveryWindowDiffers ==
  \A start \in 0..(fileA.size - 1) :
    \E i \in (start + 1)..Min(start + sampleSize, fileA.size) :
      fileA.bytes[i] # fileB.bytes[i]

\* C5: with sampleCount > 0 the comparison of two readable files of equal
\* length, in which every sample window holds a differing byte, returns false
\* whatever offsets are drawn.
C5_DetectsDifference ==
  (/\ cmp.impl = "vfy"
   /\ Readable(fileA) /\ Readable(fileB)
   /\ fileA.size = fileB.size /\ fileA.size >= 1
   /\ EveryWindowDiffers
   /\ sampleCount > 0)
    => ~cmp.ret

\* C6: handling an entry that is a symbolic link on both sides, the two
\* resolving to different targets, adds one to the symlink-mismatch counter,
\* leaves the symlink-error counter alone, and does not call visit on it.
C6_SymlinkMismatch ==
  [][\A p \in Entries :
       (/\ Handling(p)
        /\ isSymLink(orig, p) /\ isSymLink(backup, p)
        /\ ~EvalSymlinks(orig, p).err /\ ~EvalSymlinks(backup, p).err
        /\ EvalSymlinks(orig, p).path # EvalSymlinks(backup, p).path)
         => /\ symMisMatch' = symMisMatch + 1
            /\ symLinkError' = symLinkError
            /\ p \notin visited']_vars

\* C7: an entry that is a directory on both sides is descended into, unless
\* oneFilesystem is set and its device is not its parent's: then it is counted
\* as skipped, visit is not called on it, and itemCount grows by the entry
\* alone and diffCount not at all.
C7_FilesystemBoundary ==
  [][\A p \in Entries :
       (Handling(p) /\ orig[p].kind = "dir" /\ backup[p].kind = "dir")
         => IF oneFilesystem /\ Stat(orig, p).dev # Stat(orig, Parent(p)).dev
            THEN /\ skippedCount' = skippedCount + 1
                 /\ p \notin visited'
                 /\ itemCount' = itemCount + 1
                 /\ diffCount' = diffCount
            ELSE /\ p \in visited'
                 /\ skippedCount' = skippedCount]_vars

\* C8: two runs over the same original, on backups that differ only in an
\* entry the original does not have, end with the same itemCount, diffCount,
\* skippedCount and errorCount.
C8_BackupOnlyIgnored ==
  (runNo = 2 /\ pc = "done")
    => /\ globalResultSummary.itemCount = firstSummary.itemCount
       /\ globalResultSummary.diffCount = firstSummary.diffCount
       /\ globalResultSummary.skippedCount = firstSummary.skippedCount
       /\ globalResultSummary.errorCount = firstSummary.errorCount

EmptyDirPair(p) ==
  /\ orig[p].kind = "dir" /\ ~orig[p].locked
  /\ backup[p].kind = "dir"
  /\ ReadDir(orig, p).names = <<>>

\* C9: comparing a pair of directories of which the original is empty adds
\* nothing to itemCount, diffCount, errorCount and skippedCount: nothing at
\* all for the two roots, and for an entry only the one of itemCount that
\* counts the entry itself.
C9_EmptyOriginal ==
  [][/\ (pc = "start" /\ EmptyDirPair(<<>>))
          => globalResultSummary' = globalResultSummary
     /\ \A p \in Entries :
          (Handling(p) /\ EmptyDirPair(p))
            => globalResultSummary' = Add(globalResultSummary, "itemCount", 1)]_vars

\* C10: when the walk has ended, every entry of every directory whose entries
\* it began to enumerate has been handled.
C10_WalkNotAborted ==
  pc = "done"
    => \A d \in listed :
         \A i \in 1..Len(ReadDir(orig, d).names) :
           Join(d, <<ReadDir(orig, d).names[i]>>) \in examined

\* C11: once the summary has been computed at the end of a run, the difference
\* percentage is diffCount / itemCount * 100 when itemCount > 0, and is 0 when
\* itemCount = 0.
C11_DiffPercent ==
  pc = "end"
    => IF itemCount > 0
       THEN /\ (100 * diffCount) % itemCount = 0
            /\ globalResultSummary.diffPct = ToString((100 * diffCount) \div itemCount)
       ELSE globalResultSummary.diffPct = "0"

\* the bytes one trial has read are the same in the two files
SampleMatches(r) ==
  SubSeq(fileA.bytes, r.pos + 1, r.pos + r.len) = SubSeq(fileB.bytes, r.pos + 1, r.pos + r.len)

\* C12: with sampleCount > 0 and no read failure, a comparison of two readable
\* files of equal length that returns true ends on a trial whose samples
\* match, whatever came before it, and one that returns false has made all
\* sampleCount trials, none of which matched.
C12_FirstMatch ==
  (/\ cmp # Idle
   /\ Readable(fileA) /\ Readable(fileB)
   /\ fileA.size = fileB.size
   /\ sampleCount > 0
   /\ cmp.errors = 0 /\ ~cmp.fatal)
    => IF cmp.ret
       THEN /\ cmp.reads # <<>>
            /\ SampleMatches(cmp.reads[Len(cmp.reads)])
       ELSE /\ Len(cmp.reads) = sampleCount
            /\ \A i \in 1..Len(cmp.reads) : ~SampleMatches(cmp.reads[i])

\* C13: every sampling trial draws its start in [0, size), reads exactly
\* min(sampleSize, size - start) bytes of each file beginning at that start,
\* and stays within the file.
C13_SampleWindow ==
  \A i \in 1..Len(cmp.reads) :
    LET r == cmp.reads[i]
    IN /\ r.start \in 0..(fileA.size - 1)
       /\ r.len = Min(sampleSize, fileA.size - r.start)
       /\ r.pos = r.start
       /\ r.pos + r.len <= fileA.size

\* the entries of the original tree
OrigEntries == {p \in Entries : orig[p].kind # "none"}

\* C14: after a complete walk of two identical trees in which nothing was
\* skipped and no error was met, itemCount is the number of entries (files
\* plus directories) below the original root.
C14_CountedOnce ==
  (/\ pc = "done"
   /\ backup = orig
   /\ skippedCount = 0 /\ errorCount = 0
   /\ OrigEntries \subseteq examined)
    => itemCount = Cardinality(OrigEntries)

\* C15: whenever visit puts an original path and a backup path side by side,
\* at any depth, the two are the same relative path below their roots.
C15_PathPairs ==
  \A pr \in compared : pr.backup = pr.original

\* C16: with followSymlinks unset, handling an entry that is the same symbolic
\* link to a directory on both sides counts it as skipped and does not call
\* visit on it, while handling an entry that is a directory on both sides or a
\* regular file on both sides, on its parent's device, counts nothing as
\* skipped, and the directory is descended into.
C16_SkipOnlySymlinks ==
  [][\A p \in Entries :
       (Handling(p) /\ ~followSymlinks)
         => /\ (/\ orig[p].kind = "link" /\ orig[p].tkind = "dir"
                /\ backup[p] = orig[p])
                 => /\ skippedCount' = skippedCount + 1
                    /\ p \notin visited'
            /\ (/\ orig[p].kind \in {"dir", "file"}
                /\ backup[p].kind = orig[p].kind
                /\ ~(oneFilesystem /\ Stat(orig, p).dev # Stat(orig, Parent(p)).dev))
                 => /\ skippedCount' = skippedCount
                    /\ orig[p].kind = "dir" => p \in visited']_vars

\* C17: in every state of a walk, 0 <= diffCount <= itemCount: the difference
\* percentage never exceeds 100.
C17_DiffWithinItems ==
  /\ 0 <= diffCount
  /\ diffCount <= itemCount

\* a directory of the original holding two entries has been found against a
\* backup entry that is no directory, and its entries have been counted as
\* differences
C17_SubtreeCounted ==
  /\ \E p \in visited :
       /\ p # <<>>
       /\ isDirOrFile(Stat(orig, p)) = "directory"
       /\ ~Stat(backup, visitPaths(p).backup).err
       /\ isDirOrFile(Stat(backup, visitPaths(p).backup)) # "directory"
       /\ countItems(orig, p).count = 2
  /\ diffCount = 3

====
